---- MODULE Spec2Model ----
(***************************************************************************)
(* A model of the Engine class of src/src/index.ts: the supervisor of the  *)
(* engineproxy child process.  One Engine object; its public methods       *)
(* start() and stop(); the callbacks it registers (the startup timer, the  *)
(* 'start' listener, the log stream's 'data' handler, the child's 'exit'   *)
(* handler, the grace timer); and the environment that drives them (the    *)
(* child writing log records, the child terminating, the event loop        *)
(* delivering events one at a time).                                       *)
(***************************************************************************)
EXTENDS Integers, Sequences, FiniteSets, TLC

\* ---------------------------------------------------------------- bounds
\* Spec lets start() past its guard MaxStarts times and spawns MaxChildren
\* processes; SpecRestart allows one more of each (a second start() and the
\* respawn that may follow it).
MaxChildren == 2        \* processes spawned over the life of the object
MaxStarts == 1          \* start() calls that get past the guard
MaxStdin == 2           \* documents written to one child's input
MaxEngines == 2         \* Engines constructed from one configuration object
MaxFrontends == 1       \* frontends in the user's configuration
MaxOrigins == 2         \* origins in the user's configuration

Children == 1..(MaxChildren + 1)
Starts == 1..(MaxStarts + 1)

\* ------------------------------------------------------------- constants
Undefined == -1         \* this.child before any assignment
Null == 0               \* this.child = null
ByStart == 0            \* spawnedBy: the spawnChild() call made by start()
CodeNull == -1          \* exit(code, signal) with code === null
CodeCrash == 1          \* an exit code that is not the fatal one
CodeInvalidConfig == 78 \* the exit code the handler treats as fatal

NoLevel == "undefined"  \* logging.level absent
NoFilter == "none"      \* logLevelFilter undefined or null
EmptyUri == <<>>        \* ''
InitialUri == EmptyUri  \* uri of a new MiddlewareParams (./middleware)
Http == <<"http://">>
StartedMsg == "Started HTTP server."

\* The addresses a readiness record may carry, as sequences of characters
\* (a host is one opaque token): 127.0.0.1:54321, and one with no port.
AddrWithPort == <<"127.0.0.1", ":", "5", "4", "3", "2", "1">>
AddrNoPort == <<"127.0.0.1">>
Addresses == {AddrWithPort, AddrNoPort}

\* Log records as decoded by the stream parser (logData.value); a record may
\* have no level field.
RecordLevels == {"undefined", "debug", "info", "warn", "warning", "error", "fatal"}
ReadinessRecords == [msg : {StartedMsg}, address : Addresses, level : {"info"}]
OtherRecords == [msg : {"other"}, address : {<<>>}, level : RecordLevels]
LogRecords == ReadinessRecords \cup OtherRecords

\* The levels the user may have requested in engineConfig.logging.level
\* that make spawnChild() hack the level.
HackedLevels == {"warn", "error", "fatal"}

VARIABLES
    running,        \* this.running
    child,          \* this.child: Undefined, Null or a child
    uri,            \* this.middlewareParams.uri
    level,          \* this.engineConfig.logging.level
    status,         \* per child: "unspawned", "alive", "killed" (alive,
                    \* and kill() has sent it a signal), "terminated" (the
                    \* process is gone, its 'exit' event is queued),
                    \* "exited" (the 'exit' event was delivered)
    exitCode,       \* per child: the code its queued 'exit' event carries
    stdin,          \* per child: the levels of the documents written to it
    logLevel,       \* per spawnChild() call: const logLevel
    logLevelFilter, \* per spawnChild() call: let logLevelFilter
    graceTimer,     \* per spawnChild() call: a setTimeout(.., 1000) is armed
    spawnedBy,      \* per child: ByStart, or the child whose exit handler
                    \* spawned it
    errorEvents,    \* per child: 'error' events emitted by its exit handler
    ready,          \* per child: the 'data' handler has processed a
                    \* readiness record of it
    cancelTimeout,  \* per start() call: "unset", "armed", "fired", "cleared"
    promise,        \* per start() call: the promise start() returned
    stopPromise,    \* per child: the promise of the stop() that took it
    piped,          \* per child: its stdout is piped into logStream.input
    sideloadConfig, \* the caller's SideloadConfig object
    envPort,        \* process.env.PORT
    engineConfig    \* per Engine constructed: frontends and origins of
                    \* this.engineConfig when the constructor returns

vars == <<running, child, uri, level, status, exitCode, stdin,
          logLevel, logLevelFilter, graceTimer, spawnedBy, errorEvents,
          ready, cancelTimeout, promise, stopPromise, piped,
          sideloadConfig, envPort, engineConfig>>

\* What the constructor reads and builds.
cfgVars == <<sideloadConfig, envPort, engineConfig>>

\* ------------------------------------------------------------- promises
Unset == [state |-> "unset", port |-> 0, reason |-> ""]
Pending == [state |-> "pending", port |-> 0, reason |-> ""]
Resolved(p) == [state |-> "resolved", port |-> p, reason |-> ""]
Rejected(r) == [state |-> "rejected", port |-> 0, reason |-> r]

\* resolve()/reject() of a promise: only the first settles it.
Settle(p, outcome) == IF p.state = "pending" THEN outcome ELSE p

\* ------------------------------------------------- url.parse and parseInt
Digits == <<"0", "1", "2", "3", "4", "5", "6", "7", "8", "9">>
IsDigit(ch) == \E d \in 1..10 : Digits[d] = ch
DigitVal(ch) == (CHOOSE d \in 1..10 : Digits[d] = ch) - 1

RECURSIVE TrailingDigits(_)
TrailingDigits(s) ==
    IF s = <<>> \/ ~IsDigit(s[Len(s)])
    THEN <<>>
    ELSE TrailingDigits(SubSeq(s, 1, Len(s) - 1)) \o <<s[Len(s)]>>

\* urlParser(u).port: the digits after the last ':' of the host, or nothing
\* (null) when the host has no ':' + digits at its end.
urlParserPort(u) ==
    LET host == SubSeq(u, Len(Http) + 1, Len(u))
        d == TrailingDigits(host)
        k == Len(host) - Len(d)
    IN IF Len(u) >= Len(Http) /\ k >= 1 /\ host[k] = ":" THEN d ELSE <<>>

\* parseInt with the wrong radix.
RECURSIVE parseIntRadix8(_)
parseIntRadix8(d) ==
    IF d = <<>> THEN 0
    ELSE 8 * parseIntRadix8(SubSeq(d, 1, Len(d) - 1)) + DigitVal(d[Len(d)])

\* parseInt(port, 10), line 339.
RECURSIVE parseInt(_)
parseInt(d) ==
    IF d = <<>> THEN 0
    ELSE 10 * parseInt(SubSeq(d, 1, Len(d) - 1)) + DigitVal(d[Len(d)])

\* ------------------------------------------------------------ level hack
\* spawnChild, lines 237-249: the level sent to the child and the filter.
HackedLevel(l) == IF l \in {"warn", "warning", "error", "fatal"} THEN "info" ELSE l

\* A filter that lets only fatal records through, whatever was requested.
FilterForFatal(l) ==
    IF l \in {"warn", "warning", "error", "fatal"} THEN "fatal" ELSE NoFilter

FilterFor(l) ==
    CASE l \in {"warn", "warning"} -> "warn|error|fatal"
      [] l = "error" -> "error|fatal"
      [] l = "fatal" -> "fatal"
      [] OTHER -> NoFilter

\* logRecord.level.match(logLevelFilter), line 281.
Matches(l, filter) ==
    CASE filter = "warn|error|fatal" -> l \in {"warn", "warning", "error", "fatal"}
      [] filter = "error|fatal" -> l \in {"error", "fatal"}
      [] filter = "fatal" -> l = "fatal"
      [] OTHER -> FALSE

\* ----------------------------------------------------------- constructor
\* String(n) of a positive number, as in 'http://127.0.0.1:' + port.
RECURSIVE PortString(_)
PortString(n) ==
    IF n < 10 THEN <<Digits[n + 1]>>
    ELSE PortString(n \div 10) \o <<Digits[(n % 10) + 1]>>

SeqsUpTo(S, n) == UNION {[1..k -> S] : k \in 0..n}

\* A field of the user's configuration that holds a list: absent
\* (typeof .. === 'undefined') or present with its elements.
Absent == [present |-> FALSE, list |-> <<>>]
Present(l) == [present |-> TRUE, list |-> l]

\* What the user may have configured: a frontend; an origin with an http
\* section and one without.
UserFrontend == [host |-> "0.0.0.0", endpoint |-> "/user", port |-> 8080]
HttpOrigin == [http |-> TRUE, url |-> <<"http://origin/">>, headerSecret |-> <<"user">>]
OtherOrigin == [http |-> FALSE, url |-> <<>>, headerSecret |-> <<>>]

SideloadConfigs ==
    [graphqlPort : {0, 3000},
     endpoint : {"", "/api"},
     engineConfig :
        [frontends : {Absent} \cup {Present(l) : l \in SeqsUpTo({UserFrontend}, MaxFrontends)},
         origins : {Absent} \cup {Present(l) : l \in SeqsUpTo({HttpOrigin, OtherOrigin}, MaxOrigins)}]]

NoEnvPort == <<"undefined">>
EnvPorts == {NoEnvPort, <<"8", "0">>}

\* isFinite(process.env.PORT), line 151.
IsFinite(port) == port # NoEnvPort /\ \A k \in 1..Len(port) : IsDigit(port[k])

\* randomBytes(48).toString('hex'), line 141: the secret of the n-th Engine.
Psk(n) == <<"psk">> \o PortString(n)

\* sideloadConfig.endpoint || '/graphql', line 140.
Endpoint(side) == IF side.endpoint = "" THEN "/graphql" ELSE side.endpoint

\* Lines 147-160.
constructorThrows(side, env) == side.graphqlPort = 0 /\ ~IsFinite(env)
graphqlPort(side, env) ==
    IF side.graphqlPort # 0 THEN side.graphqlPort ELSE parseInt(env)

\* The frontend of lines 163-167 and the frontends array after lines
\* 168-172: a new array, or the user's array with the frontend pushed.
Frontend(side) == [host |-> "127.0.0.1", endpoint |-> Endpoint(side), port |-> 0]
Frontends(side) ==
    IF side.engineConfig.frontends.present
    THEN Append(side.engineConfig.frontends.list, Frontend(side))
    ELSE <<Frontend(side)>>

\* The origin of lines 175-180 and the origins array after lines 174-192:
\* a new array, or the user's array, each http section given the secret.
Origin(side, env, psk) ==
    [http |-> TRUE,
     url |-> <<"http://127.0.0.1:">> \o PortString(graphqlPort(side, env)) \o <<Endpoint(side)>>,
     headerSecret |-> psk]
Origins(side, env, psk) ==
    LET user == side.engineConfig.origins.list
    IN IF side.engineConfig.origins.present
       THEN [k \in 1..Len(user) |->
                IF user[k].http THEN [user[k] EXCEPT !.headerSecret = psk] ELSE user[k]]
       ELSE <<Origin(side, env, psk)>>

\* The caller's object after the constructor: Object.assign({}, ..) of line
\* 136 copies the fields, so the arrays and the origins in them are shared.
Shared(side, env, psk) ==
    [side EXCEPT
        !.engineConfig.frontends.list =
            IF side.engineConfig.frontends.present THEN Frontends(side) ELSE @,
        !.engineConfig.origins.list =
            IF side.engineConfig.origins.present THEN Origins(side, env, psk) ELSE @]

\* A configuration with a port and nothing else.
PlainSideload ==
    [graphqlPort |-> 3000, endpoint |-> "",
     engineConfig |-> [frontends |-> Absent, origins |-> Absent]]

\* ----------------------------------------------------------------- state
Spawned == {c \in Children : status[c] # "unspawned"}
nStarts == Cardinality({i \in Starts : cancelTimeout[i] # "unset"})
NextChild == Cardinality(Spawned) + 1

\* The object after construction, but for the requested level.
Constructed ==
    /\ running = FALSE
    /\ child = Undefined
    /\ uri = InitialUri
    /\ status = [c \in Children |-> "unspawned"]
    /\ exitCode = [c \in Children |-> CodeNull]
    /\ stdin = [c \in Children |-> <<>>]
    /\ logLevel = [c \in Children |-> NoLevel]
    /\ logLevelFilter = [c \in Children |-> NoFilter]
    /\ graceTimer = [c \in Children |-> FALSE]
    /\ spawnedBy = [c \in Children |-> ByStart]
    /\ errorEvents = [c \in Children |-> 0]
    /\ ready = [c \in Children |-> FALSE]
    /\ cancelTimeout = [i \in Starts |-> "unset"]
    /\ promise = [i \in Starts |-> Unset]
    /\ stopPromise = [c \in Children |-> "none"]
    /\ piped = [c \in Children |-> FALSE]

\* The Engine was constructed from a configuration with a port only.
Configured ==
    /\ sideloadConfig = PlainSideload
    /\ envPort = NoEnvPort
    /\ engineConfig = <<[frontends |-> Frontends(PlainSideload),
                         origins |-> Origins(PlainSideload, NoEnvPort, Psk(1))]>>

\* An Engine whose configuration requests no logging level.
Init == Constructed /\ Configured /\ level = NoLevel

\* An Engine whose configuration requests warn, error or fatal.
InitHack == Constructed /\ Configured /\ level \in HackedLevels

\* A configuration object and an environment, no Engine constructed yet.
InitConfig ==
    /\ Constructed
    /\ level = NoLevel
    /\ sideloadConfig \in SideloadConfigs
    /\ envPort \in EnvPorts
    /\ engineConfig = <<>>

\* new Engine(sideloadConfig), lines 126-225, on the caller's object: frontends
\* and origins of the new Engine's configuration.
Construct ==
    /\ Len(engineConfig) < MaxEngines
    /\ IF constructorThrows(sideloadConfig, envPort)
       THEN UNCHANGED cfgVars
       ELSE LET psk == Psk(Len(engineConfig) + 1)
            IN /\ engineConfig' =
                    Append(engineConfig,
                           [frontends |-> Frontends(sideloadConfig),
                            origins |-> Origins(sideloadConfig, envPort, psk)])
               /\ sideloadConfig' = Shared(sideloadConfig, envPort, psk)
               /\ envPort' = envPort
    /\ UNCHANGED <<running, child, uri, level, status, exitCode, stdin,
                   logLevel, logLevelFilter, graceTimer, spawnedBy,
                   errorEvents, ready, cancelTimeout, promise, stopPromise,
                   piped>>

\* child.kill(): a process that is gone gets no signal.
Kill(c, st) ==
    IF c \in Children /\ st[c] = "alive" THEN [st EXCEPT ![c] = "killed"] ELSE st

\* spawnChild(), lines 233-319, called with the process table st as the
\* caller leaves it: applies the level hack, spawns, stores the handle, pipes
\* the child's stdout into a new log stream and writes the document.  At most
\* maxChildren processes are spawned.
spawnChild(st, by, maxChildren) ==
    /\ NextChild <= maxChildren
    /\ logLevel' = [logLevel EXCEPT ![NextChild] = level]
    /\ logLevelFilter' = [logLevelFilter EXCEPT ![NextChild] = FilterFor(level)]
    /\ level' = HackedLevel(level)
    /\ child' = NextChild
    /\ status' = [st EXCEPT ![NextChild] = "alive"]
    /\ stdin' = [stdin EXCEPT ![NextChild] = <<HackedLevel(level)>>]
    /\ spawnedBy' = [spawnedBy EXCEPT ![NextChild] = by]
    /\ piped' = [piped EXCEPT ![NextChild] = TRUE]

\* start(), line 228.
startThrows == running

\* start(), lines 227-342.  At most maxStarts calls get past the guard.
start(maxStarts, maxChildren) ==
    IF startThrows
    THEN UNCHANGED vars
    ELSE /\ nStarts < maxStarts
         /\ running' = TRUE
         /\ spawnChild(status, ByStart, maxChildren)
         /\ cancelTimeout' = [cancelTimeout EXCEPT ![nStarts + 1] = "armed"]
         /\ promise' = [promise EXCEPT ![nStarts + 1] = Pending]
         /\ UNCHANGED <<uri, exitCode, graceTimer, errorEvents, ready,
                        stopPromise>>
         /\ UNCHANGED cfgVars

\* The callback of setTimeout(.., this.startupTimeout), lines 324-331.
TimerFires(i) ==
    /\ cancelTimeout[i] = "armed"
    /\ cancelTimeout' = [cancelTimeout EXCEPT ![i] = "fired"]
    /\ running' = FALSE
    /\ status' = Kill(child, status)
    /\ child' = IF child \in Children THEN Null ELSE child
    /\ promise' = [promise EXCEPT ![i] = Settle(@, Rejected("timed out"))]
    /\ UNCHANGED <<uri, level, exitCode, stdin, logLevel, logLevelFilter,
                   graceTimer, spawnedBy, errorEvents, ready, stopPromise,
                   piped>>
    /\ UNCHANGED cfgVars

\* The 'start' listener of start() call i, lines 333-340, run on a uri u.
OnStart(p, u) ==
    IF urlParserPort(u) = <<>>
    THEN Settle(p, Rejected("unknown url"))
    ELSE Settle(p, Resolved(parseInt(urlParserPort(u))))

\* The 'start' listener without its clearTimeout().
ClearTimeoutNoOp(t) == t

\* clearTimeout(cancelTimeout), line 334.
ClearTimeout(t) == IF t = "armed" THEN "cleared" ELSE t

\* The readiness test of the 'data' handler, line 260.
IsReadiness(rec) == rec.msg = StartedMsg

\* logStream.output.on('data'), lines 256-284, of the spawnChild() call
\* that spawned c, on a record rec decoded from c's output.  The child wrote
\* rec while it was alive; the stream delivers it then or later (Node emits
\* 'exit' while the child's stdio streams may still be open).  The stream
\* gets the child's output only while stdout is piped into it.  Whether
\* the handler also prints rec (lines 280-283) is Prints(c, rec) below; the
\* console is no state of the Engine.
LogData(c, rec) ==
    /\ status[c] # "unspawned"
    /\ piped[c]
    /\ IF IsReadiness(rec)
       THEN /\ uri' = Http \o rec.address
            /\ ready' = [ready EXCEPT ![c] = TRUE]
            /\ cancelTimeout' =
                 [i \in Starts |-> IF i <= nStarts THEN ClearTimeout(cancelTimeout[i])
                                   ELSE cancelTimeout[i]]
            /\ promise' =
                 [i \in Starts |-> IF i <= nStarts
                                   THEN OnStart(promise[i], Http \o rec.address)
                                   ELSE promise[i]]
            /\ IF logLevelFilter[c] # NoFilter
               THEN /\ Len(stdin[c]) < MaxStdin
                    /\ level' = logLevel[c]
                    /\ stdin' = [stdin EXCEPT ![c] = Append(@, logLevel[c])]
                    /\ graceTimer' = [graceTimer EXCEPT ![c] = TRUE]
               ELSE UNCHANGED <<level, stdin, graceTimer>>
       ELSE UNCHANGED <<uri, ready, cancelTimeout, promise, level, stdin,
                        graceTimer>>
    /\ UNCHANGED <<running, child, status, exitCode, logLevel,
                   logLevelFilter, spawnedBy, errorEvents, stopPromise, piped>>
    /\ UNCHANGED cfgVars

\* The test of line 281: the 'data' handler of c prints rec (console.log).
\* The handler evaluates it after the readiness branch, which leaves
\* logLevelFilter as it is.
Prints(c, rec) ==
    \/ logLevelFilter[c] = NoFilter
    \/ rec.level = NoLevel
    \/ Matches(rec.level, logLevelFilter[c])

\* logStream.input emits 'error' on output of c that is not JSON, lines
\* 286-291: the handler prints the parser's buffer.  Readable.pipe() has put
\* its own 'error' listener on the destination, which unpipes the child's
\* stdout from it; nothing pipes it again.
ParserError(c) ==
    /\ status[c] # "unspawned"
    /\ piped[c]
    /\ piped' = [piped EXCEPT ![c] = FALSE]
    /\ UNCHANGED <<running, child, uri, level, status, exitCode, stdin,
                   logLevel, logLevelFilter, graceTimer, spawnedBy,
                   errorEvents, ready, cancelTimeout, promise, stopPromise>>
    /\ UNCHANGED cfgVars

\* The callback of setTimeout(.., 1000), lines 274-276.
GraceTimerFires(c) ==
    /\ graceTimer[c]
    /\ graceTimer' = [graceTimer EXCEPT ![c] = FALSE]
    /\ logLevelFilter' = [logLevelFilter EXCEPT ![c] = NoFilter]
    /\ UNCHANGED <<running, child, uri, level, status, exitCode, stdin,
                   logLevel, spawnedBy, errorEvents, ready, cancelTimeout,
                   promise, stopPromise, piped>>
    /\ UNCHANGED cfgVars

\* The exit handler without its test of this.running.
ExitRespawnsWhenStopped(code) == code # CodeInvalidConfig

\* The exit handler without its test of the fatal code.
ExitRespawnsOnAnyCode(code) == running

\* The exit handler without its call of spawnChild().
ExitRespawnsNever(code) == FALSE

\* The exit handler's branches, lines 302-317: the fatal one (lines 306-309)
\* and the one that reaches spawnChild() (line 317).
ExitFatal(code) == running /\ code = CodeInvalidConfig
ExitRespawns(code) == running /\ code # CodeInvalidConfig

\* child.on('exit'), lines 298-318, followed by the listener stop() added
\* to the same child, lines 372-374.
ExitEvent(c, maxChildren) ==
    /\ status[c] = "terminated"
    /\ uri' = EmptyUri
    /\ stopPromise' = [stopPromise EXCEPT ![c] = IF @ = "pending" THEN "resolved" ELSE @]
    /\ errorEvents' = [errorEvents EXCEPT ![c] = IF ExitFatal(exitCode[c]) THEN @ + 1 ELSE @]
    /\ IF ExitRespawns(exitCode[c])
       THEN spawnChild([status EXCEPT ![c] = "exited"], c, maxChildren)
       ELSE /\ status' = [status EXCEPT ![c] = "exited"]
            /\ UNCHANGED <<child, level, stdin, logLevel, logLevelFilter, spawnedBy,
                           piped>>
    /\ exitCode' = [exitCode EXCEPT ![c] = CodeNull]
    /\ UNCHANGED <<running, graceTimer, ready, cancelTimeout, promise>>
    /\ UNCHANGED cfgVars

\* stop(), line 365.
stopThrows == child = Null

\* stop(), lines 364-377.  With this.child undefined the promise's executor
\* throws on childRef.on and the promise is rejected.
stop ==
    IF stopThrows
    THEN UNCHANGED vars
    ELSE /\ child' = Null
         /\ running' = FALSE
         /\ stopPromise' = IF child \in Children
                           THEN [stopPromise EXCEPT ![child] = "pending"]
                           ELSE stopPromise
         /\ status' = Kill(child, status)
         /\ UNCHANGED <<uri, level, exitCode, stdin, logLevel,
                        logLevelFilter, graceTimer, spawnedBy, errorEvents,
                        ready, cancelTimeout, promise, piped>>
         /\ UNCHANGED cfgVars

\* ----------------------------------------------------------- environment
\* The codes a process may end with: killed by the signal it was sent, or,
\* on its own, with the fatal code, another code, or by some signal.
ExitCodes(c) ==
    IF status[c] = "killed" THEN {CodeNull}
    ELSE {CodeNull, CodeCrash, CodeInvalidConfig}

\* The process ends; its 'exit' event is queued.
ChildTerminates(c, code) ==
    /\ status[c] \in {"alive", "killed"}
    /\ code \in ExitCodes(c)
    /\ status' = [status EXCEPT ![c] = "terminated"]
    /\ exitCode' = [exitCode EXCEPT ![c] = code]
    /\ UNCHANGED <<running, child, uri, level, stdin, logLevel,
                   logLevelFilter, graceTimer, spawnedBy, errorEvents,
                   ready, cancelTimeout, promise, stopPromise, piped>>
    /\ UNCHANGED cfgVars

\* The steps of an Engine that hacked no level (no grace timer is armed).
Next(maxStarts, maxChildren) ==
    \/ start(maxStarts, maxChildren)
    \/ stop
    \/ \E i \in Starts : TimerFires(i)
    \/ \E c \in Children : \E rec \in LogRecords : LogData(c, rec)
    \/ \E c \in Children : ExitEvent(c, maxChildren)
    \/ \E c \in Children : \E code \in {CodeNull, CodeCrash, CodeInvalidConfig} :
          ChildTerminates(c, code)

\* The steps of an Engine that hacked the level.
NextHack(maxStarts, maxChildren) ==
    \/ Next(maxStarts, maxChildren)
    \/ \E c \in Children : GraceTimerFires(c)

\* The steps of an Engine whose child may write output that is not JSON.
NextParser(maxStarts, maxChildren) ==
    \/ Next(maxStarts, maxChildren)
    \/ \E c \in Children : ParserError(c)

\* One start(), its child and the replacements of it.
Spec == Init /\ [][Next(MaxStarts, MaxChildren)]_vars

\* The same with start() called again after stop() or a timeout.
SpecRestart == Init /\ [][Next(MaxStarts + 1, MaxChildren + 1)]_vars

\* One start() with a hacked level.
SpecHack == InitHack /\ [][NextHack(MaxStarts, MaxChildren)]_vars

\* One start() with a hacked level whose child is not replaced: the filter
\* of one spawnChild() call.
SpecFilter == InitHack /\ [][NextHack(MaxStarts, MaxChildren - 1)]_vars

\* A hacked level, with start() called again after stop() or a timeout.
SpecHackRestart == InitHack /\ [][NextHack(MaxStarts + 1, MaxChildren)]_vars

\* Engines constructed one after another from one configuration object.
SpecConfig == InitConfig /\ [][Construct]_vars

\* One start() of an Engine whose child may write output that is not JSON.
SpecParser == Init /\ [][NextParser(MaxStarts, MaxChildren)]_vars

\* ------------------------------------------------------------ the claims
Newest == Cardinality(Spawned)

\* The step that delivers the 'exit' event of c; the step in which the
\* startup timer of start() call i fires.
ExitStep(c) == status[c] = "terminated" /\ status'[c] = "exited"
TimerStep(i) == cancelTimeout[i] = "armed" /\ cancelTimeout'[i] = "fired"
IsReplacement(c) == c \in Children /\ status[c] # "unspawned" /\ spawnedBy[c] # ByStart

\* C1: every spawned process that is alive and has not been sent a signal is
\* the one this.child refers to; so there is at most one, and none is left
\* behind by a later spawn.
C1_OneLiveChildHeld == \A c \in Children : status[c] = "alive" => child = c

\* C2: whenever uri is not empty the supervisor holds a child, that child's
\* process has not been reported gone (its 'exit' is not delivered), and uri
\* came from a readiness record of that child.
C2_UriOnlyWhileChildHeld ==
    uri # EmptyUri =>
        /\ child \in Children
        /\ status[child] \in {"alive", "terminated"}
        /\ ready[child]

\* C3: the future of a stop() that took a child completes, and not before
\* the child's 'exit': while it is pending the process has been signalled or
\* is gone and its 'exit' event is still to be delivered (so that, a
\* signalled process exiting, it will complete); once it is resolved the
\* 'exit' event was delivered.
C3_StopCompletes ==
    \A c \in Children :
        /\ stopPromise[c] = "pending" => status[c] \in {"killed", "terminated"}
        /\ stopPromise[c] = "resolved" => status[c] = "exited"

\* C4: in every state in which no child process is active (the handle is
\* not a child, or it is a child whose 'exit' was delivered) stop() takes
\* its throwing branch, which changes nothing.
NoChildActive == child \notin Children \/ status[child] = "exited"
C4_StopThrowsWhenNoChild == NoChildActive => stopThrows

\* stop() took some child and start() has not got past its guard since.
StopInEffect ==
    \E c \in Children :
        /\ stopPromise[c] # "none"
        /\ \A d \in Children : (d > c /\ status[d] # "unspawned") => spawnedBy[d] # ByStart

\* C5: once stop() has taken a child, and until start() is called again, no
\* step spawns a process, whatever 'exit' events are delivered.
C5_NoRespawnAfterStop == [][StopInEffect /\ StopInEffect' => Spawned' = Spawned]_vars

\* A stop() took a child, its 'exit' was delivered and nothing was spawned.
C5_Witness ==
    /\ StopInEffect
    /\ \E c \in Children : stopPromise[c] = "resolved" /\ Newest = c

\* The port an address names.
ExpectedPort(a) == IF a = AddrWithPort THEN 54321 ELSE 0

\* C6: a readiness record with address host:port processed while the timer
\* of a start() call is armed sets uri to http://host:port, clears that
\* timer and resolves that call's future with the port; a cleared timer
\* stays cleared (it never fires).
C6_ReadinessResolvesStart ==
    [][\A i \in Starts :
         /\ \A c \in Children : \A rec \in ReadinessRecords :
              (cancelTimeout[i] = "armed" /\ rec.address = AddrWithPort /\ LogData(c, rec))
                 => /\ uri' = Http \o rec.address
                    /\ cancelTimeout'[i] = "cleared"
                    /\ promise'[i] = Resolved(ExpectedPort(rec.address))
         /\ cancelTimeout[i] = "cleared" => cancelTimeout'[i] = "cleared"]_vars

\* A start() call's future is resolved with 54321, its timer cleared, and
\* uri is http://127.0.0.1:54321.
C6_Witness ==
    \E i \in Starts :
        /\ promise[i] = Resolved(54321)
        /\ cancelTimeout[i] = "cleared"
        /\ uri = Http \o AddrWithPort

\* C7: when the startup timer of a start() call fires, that call's future
\* is rejected with the timeout error, the running flag is false, the handle
\* is cleared and no child process is left alive without a signal; and while
\* the running flag stays false no process is spawned.
C7_TimeoutLeavesNoChild ==
    [][/\ \A i \in Starts : TimerStep(i) =>
              /\ promise'[i] = Rejected("timed out")
              /\ ~running'
              /\ child' \notin Children
              /\ \A c \in Children : status'[c] # "alive"
       /\ (~running /\ ~running') => Spawned' = Spawned]_vars

\* C8: once the timer of the latest start() call has fired, a readiness
\* record changes nothing: not uri, not a future, not a child's input; and a
\* timer that readiness cleared never fires.
C8_SecondOutcomeIsNoOp ==
    [][/\ \A c \in Children : \A rec \in ReadinessRecords :
             (nStarts >= 1 /\ cancelTimeout[nStarts] = "fired" /\ LogData(c, rec))
                => uri' = uri /\ promise' = promise /\ stdin' = stdin
       /\ \A i \in Starts : cancelTimeout[i] = "cleared" => cancelTimeout'[i] # "fired"]_vars

C10_RespawnGap ==
    [][/\ \A c \in Children :
             (ExitStep(c) /\ running /\ exitCode[c] # CodeInvalidConfig)
                => /\ Spawned' = Spawned \cup {Newest + 1}
                   /\ spawnedBy'[Newest + 1] = c
                   /\ status'[Newest + 1] = "alive"
                   /\ uri' = EmptyUri
       /\ (IsReplacement(Newest)' /\ ~ready'[Newest']) => uri' = EmptyUri]_vars

\* C11: output that is not JSON never ends log decoding: of every child that
\* was spawned, whatever parser errors its stream has reported, a readiness
\* record it writes can still be decoded and delivered to the 'data' handler.
C11_DecodingContinues ==
    \A c \in Children : status[c] # "unspawned" =>
        \A rec \in ReadinessRecords : ENABLED LogData(c, rec)

\* C12: the exit handler of a child that exits while running is true, with a
\* code other than 78 or by a signal, spawns a replacement and settles no
\* start() future and touches no startup timer (a pending future stays
\* pending, an armed timer stays armed and is not restarted); and a readiness
\* record of a replacement with address host:port, processed while the timer
\* of a start() call is still armed, resolves that call's future with the port.
C12_CrashKeepsStartPending ==
    [][/\ \A c \in Children :
             (ExitStep(c) /\ running /\ exitCode[c] # CodeInvalidConfig)
                => /\ promise' = promise
                   /\ cancelTimeout' = cancelTimeout
                   /\ Spawned' # Spawned
       /\ \A i \in Starts : \A c \in Children : \A rec \in ReadinessRecords :
             (/\ IsReplacement(c)
              /\ cancelTimeout[i] = "armed"
              /\ rec.address = AddrWithPort
              /\ LogData(c, rec))
                => /\ promise[i] = Pending
                   /\ promise'[i] = Resolved(ExpectedPort(rec.address))]_vars

\* The first child crashed before any readiness record of it was processed,
\* and the start() future is resolved with the port of its live replacement.
C12_Witness ==
    \E i \in Starts : \E c \in Children :
        /\ IsReplacement(c)
        /\ status[c] = "alive"
        /\ ready[c]
        /\ ~ready[spawnedBy[c]]
        /\ cancelTimeout[i] = "cleared"
        /\ promise[i] = Resolved(54321)

\* C13: a readiness record whose address has no port, processed while the
\* timer of a start() call is armed, rejects that call's future with
\* 'unknown url' and clears the timer, and is no crash: the running flag, the
\* handle and every process are as before and nothing is spawned; no timer is
\* left armed, and the rejected future and its cleared timer stay as they
\* are (no timeout rejection and no kill by that timer follow).
C13_NoPortRejectsOnly ==
    [][/\ \A i \in Starts : \A c \in Children : \A rec \in ReadinessRecords :
             (cancelTimeout[i] = "armed" /\ rec.address = AddrNoPort /\ LogData(c, rec))
                => /\ promise'[i] = Rejected("unknown url")
                   /\ cancelTimeout'[i] = "cleared"
                   /\ \A j \in Starts : cancelTimeout'[j] # "armed"
                   /\ running' = running
                   /\ child' = child
                   /\ status' = status
       /\ \A i \in Starts :
             promise[i] = Rejected("unknown url")
                => /\ promise'[i] = promise[i]
                   /\ cancelTimeout[i] = "cleared"
                   /\ cancelTimeout'[i] = "cleared"]_vars

\* A start() future is rejected with 'unknown url', its timer is cleared,
\* and the Engine is running with its child alive and unsignalled.
C13_Witness ==
    \E i \in Starts :
        /\ promise[i] = Rejected("unknown url")
        /\ cancelTimeout[i] = "cleared"
        /\ uri = Http \o AddrNoPort
        /\ running
        /\ child \in Children
        /\ status[child] = "alive"
        /\ Newest = 1

\* The Engines constructed so far; the url the synthetic origin must have.
Engines == 1..Len(engineConfig)
UserOrigins == sideloadConfig.engineConfig.origins
ExpectedEndpoint == IF sideloadConfig.endpoint = "/api" THEN "/api" ELSE "/graphql"
ExpectedUrl ==
    IF sideloadConfig.graphqlPort = 3000
    THEN <<"http://127.0.0.1:", "3", "0", "0", "0", ExpectedEndpoint>>
    ELSE <<"http://127.0.0.1:", "8", "0", ExpectedEndpoint>>

\* C14: when the user supplied no origins (the field absent, or an empty
\* list) the configuration of every Engine constructed has exactly one
\* origin, with url 'http://127.0.0.1:' + graphqlPort + endpoint and the
\* Engine's psk as headerSecret; when origins were supplied, it has the
\* user's origins, each with an http section carrying the psk and each
\* other one as the user wrote it.
C14_Origins ==
    \A n \in Engines :
        LET origins == engineConfig[n].origins
        IN IF ~UserOrigins.present \/ UserOrigins.list = <<>>
           THEN /\ Len(origins) = 1
                /\ origins[1].url = ExpectedUrl
                /\ origins[1].headerSecret = Psk(n)
           ELSE /\ Len(origins) = Len(UserOrigins.list)
                /\ \A k \in 1..Len(origins) :
                      IF UserOrigins.list[k].http
                      THEN origins[k] = [HttpOrigin EXCEPT !.headerSecret = Psk(n)]
                      ELSE origins[k] = OtherOrigin

\* C15: the configuration of every Engine constructed has exactly one
\* synthetic frontend (127.0.0.1, port 0, the endpoint), after the user's
\* frontends; and construction adds no frontend to the caller's
\* configuration object.
C15_OneSyntheticFrontend ==
    LET synthetic == [host |-> "127.0.0.1", endpoint |-> ExpectedEndpoint, port |-> 0]
    IN /\ \A n \in Engines :
             LET frontends == engineConfig[n].frontends
             IN /\ Len(frontends) >= 1
                /\ frontends[Len(frontends)] = synthetic
                /\ \A k \in 1..(Len(frontends) - 1) : frontends[k] = UserFrontend
       /\ \A k \in 1..Len(sideloadConfig.engineConfig.frontends.list) :
             sideloadConfig.engineConfig.frontends.list[k] = UserFrontend

\* The level the user requested: the one the first spawnChild() read.
Requested == logLevel[1]

\* C16: of every child spawned by start(): if the requested level is warn,
\* error or fatal, the first document written to it carries 'info' and is
\* the only one until a readiness record of it is processed, and once one is
\* processed a second document carrying the requested level follows the
\* first; otherwise exactly one document is written to it and it carries the
\* requested level.
C16_LevelDocuments ==
    \A c \in Children :
        (status[c] # "unspawned" /\ spawnedBy[c] = ByStart) =>
            IF Requested \in HackedLevels
            THEN /\ stdin[c][1] = "info"
                 /\ ~ready[c] => Len(stdin[c]) = 1
                 /\ ready[c] => Len(stdin[c]) >= 2 /\ stdin[c][2] = Requested
            ELSE stdin[c] = <<Requested>>

\* C17: every child spawned by an exit handler is spawned from the level
\* the user requested: spawnChild() reads that level, writes 'info' first,
\* installs the filter for the requested level, and writes the requested
\* level once a readiness record of the child is processed.
C17_RespawnFromBase ==
    \A c \in Children :
        IsReplacement(c) =>
            /\ logLevel[c] = Requested
            /\ stdin[c][1] = "info"
            /\ ~ready[c] => logLevelFilter[c] = FilterFor(Requested)
            /\ ready[c] => Len(stdin[c]) >= 2 /\ stdin[c][2] = Requested

\* The severity order of the levels.
Severity(l) ==
    CASE l = "debug" -> 1
      [] l = "info" -> 2
      [] l \in {"warn", "warning"} -> 3
      [] l = "error" -> 4
      [] l = "fatal" -> 5

\* The grace timer armed at c's readiness has fired.
GraceElapsed(c) == ready[c] /\ ~graceTimer[c]

C19_TimerOfOneStart ==
    [][\A i \in Starts :
         (TimerStep(i) /\ i < nStarts)
            => /\ status' = status
               /\ running' = running
               /\ child' = child]_vars

\* C20: start() gets past its guard at most once in the life of the Engine.
C20_StartOnce == nStarts <= 1

====
